---------------------------- MODULE Spec2Model ----------------------------
(***************************************************************************)
(* Shift backend: the wallet Session Store and its request handlers        *)
(* (server.ts) and the CoinGecko price cache (services/PriceCache.ts).     *)
(*                                                                         *)
(* Node runs every handler on one thread: the code between two awaits is   *)
(* one atomic step, so each action below is one such synchronous segment.  *)
(***************************************************************************)
EXTENDS Integers, Sequences, FiniteSets, TLC

(***************************************************************************)
(* Bounds of the model.                                                    *)
(***************************************************************************)
\* concurrent HTTP requests in flight
MaxReqs == 2
\* SolanaAgentKit instances ever constructed
MaxAgents == 2
\* concurrent HTTP requests in flight beside a running price cache
MaxClients == 1
\* last value of the clock
MaxTime == 4
\* refresh attempts ever started
MaxAttempts == 3

\* PriceCacheService.CACHE_DURATION, in clock units of half an hour
CACHE_DURATION == 2

(***************************************************************************)
(* JavaScript values.                                                      *)
(***************************************************************************)
Undefined == [t |-> "undefined"]
Num(n) == [t |-> "number", v |-> n]

\* !x of a string: an absent or empty string is falsy
Falsy(s) == s = ""

\* {} and new Map(): no key
EmptyMap == [k \in {} |-> Undefined]

(***************************************************************************)
(* PriceCache.ts                                                           *)
(***************************************************************************)
Symbols == {"BTC", "ETH", "SOL"}

\* the response's key of each tracked symbol
CoinId(s) == CASE s = "BTC" -> "bitcoin" [] s = "ETH" -> "ethereum" [] s = "SOL" -> "solana"
CoinIds == {CoinId(s) : s \in Symbols}

\* what the feed may answer per coin: a quote object, with or without
\* usable fields. A key that is absent reads as Undefined.
Quote(usd, change) == [usd |-> usd, usd_24h_change |-> change]
QuoteA == Quote(Num(1), Num(-1))
QuoteB == Quote(Num(2), Num(1))
NoPrice == Quote(Undefined, Undefined)
Negative == Quote(Num(-1), Num(0))

\* the parsed bodies response.json() may resolve to: null; an object with
\* any of the three coins; complete objects with other or unusable quotes
Null == [t |-> "null"]
Payloads ==
    {Null}
    \cup [CoinIds -> {Undefined, QuoteA}]
    \cup {[c \in CoinIds |-> QuoteB]}
    \cup {[c \in CoinIds |-> IF c = "bitcoin" THEN NoPrice ELSE QuoteA]}
    \cup {[c \in CoinIds |-> IF c = "solana" THEN Negative ELSE QuoteB]}

\* !data.bitcoin || !data.ethereum || !data.solana: an object is truthy
ResponseInvalid(data) == \E c \in CoinIds : data[c] = Undefined

\* the object literal assigned to this.cache; fetchedBy is not in the code:
\* it names the attempt whose response the entry was built from
CacheEntry(q, t, a) ==
    [usd |-> q.usd, usd_24h_change |-> q.usd_24h_change, last_updated |-> t,
     fetchedBy |-> a]

NewCache(data, t, a) == [s \in Symbols |-> CacheEntry(data[CoinId(s)], t, a)]

\* this.cache[symbol]
\* (faulty variant: a zero entry stands in for an absent one)
CacheGetZero(c, s) ==
    IF s \in DOMAIN c THEN c[s]
    ELSE [usd |-> Num(0), usd_24h_change |-> Num(0), last_updated |-> 0,
          fetchedBy |-> 0]
CacheGet(c, s) == IF s \in DOMAIN c THEN c[s] ELSE Undefined

VARIABLES
    now,          \* the clock (new Date(), and the timers' clock)
    cache,        \* PriceCacheService.cache
    timerArmed,   \* PriceCacheService.updateInterval is a live timer
    nextFire,     \* when that timer is due
    attempts,     \* the calls of updatePrices, in the order they started
    lastRead,     \* the last getPrice call and what it returned
    log,          \* the last thing updatePrices wrote to the console
    userSessions, \* the Map of server.ts
    nextAgent,    \* identity of the next SolanaAgentKit instance
    req,          \* the HTTP requests in flight
    initLog       \* history: per key, the agent of its last successful init

cacheVars == <<now, cache, timerArmed, nextFire, attempts, lastRead, log>>
sessionVars == <<userSessions, nextAgent, req, initLog>>
vars == <<now, cache, timerArmed, nextFire, attempts, lastRead, log,
          userSessions, nextAgent, req, initLog>>

NoRead == [symbol |-> "", value |-> Undefined]

\* console.log('Raw CoinGecko Response:', data): the parsed body;
\* console.error('Failed to update price cache:', error): Thrown
Thrown == [t |-> "error"]
NoLog == [t |-> "nothing"]

\* a call of updatePrices suspended at its first await
NewAttempt(t) == [start |-> t, pc |-> "fetch", outcome |-> "pending"]

Finish(a, how) == [attempts EXCEPT ![a].pc = "done", ![a].outcome = how]

(***************************************************************************)
(* The clock advances; a due timer fires before it advances further.       *)
(***************************************************************************)
ClockTick ==
    /\ now < MaxTime
    /\ ~(timerArmed /\ now >= nextFire)
    /\ now' = now + 1
    /\ UNCHANGED <<cache, timerArmed, nextFire, attempts, lastRead, log>>
    /\ UNCHANGED sessionVars

\* the setInterval callback: this.updatePrices() up to its first await
TimerFire ==
    /\ timerArmed
    /\ now >= nextFire
    /\ Len(attempts) < MaxAttempts
    /\ attempts' = Append(attempts, NewAttempt(now))
    /\ nextFire' = now + CACHE_DURATION
    /\ UNCHANGED <<now, cache, timerArmed, lastRead, log>>
    /\ UNCHANGED sessionVars

\* await fetch(...) resolves: on to await response.json()
FetchResolve(a) ==
    /\ attempts[a].pc = "fetch"
    /\ attempts' = [attempts EXCEPT ![a].pc = "json"]
    /\ UNCHANGED <<now, cache, timerArmed, nextFire, lastRead, log>>
    /\ UNCHANGED sessionVars

\* await fetch(...) rejects: the catch block logs
\* (faulty variant: the catch block also empties the cache)
FetchThrowClears(a) ==
    /\ attempts[a].pc = "fetch"
    /\ attempts' = Finish(a, "failed")
    /\ log' = Thrown
    /\ cache' = EmptyMap
    /\ UNCHANGED <<now, timerArmed, nextFire, lastRead>>
    /\ UNCHANGED sessionVars

\* (faulty variant: a failed fetch is tried again at once)
FetchThrowRetries(a) ==
    /\ attempts[a].pc = "fetch"
    /\ log' = Thrown
    /\ IF Len(attempts) < MaxAttempts
         THEN attempts' = Append(Finish(a, "failed"), NewAttempt(now))
         ELSE attempts' = Finish(a, "failed")
    /\ UNCHANGED <<now, cache, timerArmed, nextFire, lastRead>>
    /\ UNCHANGED sessionVars

FetchThrow(a) ==
    /\ attempts[a].pc = "fetch"
    /\ attempts' = Finish(a, "failed")
    /\ log' = Thrown
    /\ UNCHANGED <<now, cache, timerArmed, nextFire, lastRead>>
    /\ UNCHANGED sessionVars

\* await response.json() rejects (the body is not JSON): the catch block logs
JsonThrow(a) ==
    /\ attempts[a].pc = "json"
    /\ attempts' = Finish(a, "failed")
    /\ log' = Thrown
    /\ UNCHANGED <<now, cache, timerArmed, nextFire, lastRead>>
    /\ UNCHANGED sessionVars

\* await response.json() resolves to data: validate, then replace the cache
\* (faulty variant: each coin present is stored on its own, no validation)
JsonResolveKeepOld(a, data) ==
    /\ attempts[a].pc = "json"
    /\ log' = data
    /\ IF data = Null
         THEN attempts' = Finish(a, "failed") /\ cache' = cache
         ELSE /\ attempts' = Finish(a, "updated")
              /\ cache' = [s \in {x \in Symbols : data[CoinId(x)] # Undefined
                                                  \/ x \in DOMAIN cache} |->
                             IF data[CoinId(s)] # Undefined
                               THEN CacheEntry(data[CoinId(s)], now, a)
                               ELSE cache[s]]
    /\ UNCHANGED <<now, timerArmed, nextFire, lastRead>>
    /\ UNCHANGED sessionVars

JsonResolve(a, data) ==
    /\ attempts[a].pc = "json"
    /\ log' = data
    /\ IF data = Null
         \* data.bitcoin of null throws a TypeError: the catch block logs
         THEN attempts' = Finish(a, "failed") /\ cache' = cache
         ELSE IF ResponseInvalid(data)
           THEN attempts' = Finish(a, "invalid") /\ cache' = cache
           ELSE attempts' = Finish(a, "updated") /\ cache' = NewCache(data, now, a)
    /\ UNCHANGED <<now, timerArmed, nextFire, lastRead>>
    /\ UNCHANGED sessionVars

\* getPrice(symbol), called by anyone
\* (faulty variant: a miss starts a fetch)
GetPriceRefreshing(s) ==
    /\ lastRead' = [symbol |-> s, value |-> CacheGet(cache, s)]
    /\ IF s \notin DOMAIN cache /\ Len(attempts) < MaxAttempts
         THEN attempts' = Append(attempts, NewAttempt(now))
         ELSE attempts' = attempts
    /\ UNCHANGED <<now, cache, timerArmed, nextFire, log>>
    /\ UNCHANGED sessionVars

GetPrice(s) ==
    /\ lastRead' = [symbol |-> s, value |-> CacheGet(cache, s)]
    /\ UNCHANGED <<now, cache, timerArmed, nextFire, attempts, log>>
    /\ UNCHANGED sessionVars

\* the operations of the PriceCacheService object
PriceCacheOp ==
    \/ TimerFire
    \/ \E a \in DOMAIN attempts : FetchResolve(a)
    \/ \E a \in DOMAIN attempts : FetchThrow(a)
    \/ \E a \in DOMAIN attempts : JsonThrow(a)
    \/ \E a \in DOMAIN attempts, data \in Payloads : JsonResolve(a, data)
    \/ \E s \in Symbols : GetPrice(s)

NextCache == ClockTick \/ PriceCacheOp

(***************************************************************************)
(* server.ts                                                               *)
(***************************************************************************)
\* the publicKey and message values a client may send; "" is absent or empty
Keys == {"", "walletA", "walletB"}
Messages == {"", "hello"}
Reqs == 1..MaxReqs
\* the requests of the specifications that run handlers beside the cache
Clients == 1..MaxClients

\* new SolanaAgentKit(publicKey, ...): n is the instance's identity
Agent(n, k) == [id |-> n, wallet |-> k]
\* createVercelAITools(agent): the tools call into that agent
CreateTools(agent) == [boundTo |-> agent.id]
NoTools == [boundTo |-> 0]

\* Map.get(k) finds an entry (a session object is truthy)
HasSession(m, k) == k \in DOMAIN m

\* Map.set(k, v)
\* (faulty variants: the first entry of a key is kept; the map is rebuilt)
MapSetOnce(m, k, v) ==
    [x \in DOMAIN m \cup {k} |-> IF x \in DOMAIN m THEN m[x] ELSE v]
MapSetAlone(m, k, v) == [x \in {k} |-> v]
MapSet(m, k, v) == [x \in DOMAIN m \cup {k} |-> IF x = k THEN v ELSE m[x]]

Idle == [pc |-> "idle"]

\* a handler suspended at an await
Pending(op, k, m, at, tools, nModel, nAgent) ==
    [pc |-> at, op |-> op, key |-> k, msg |-> m, tools |-> tools,
     modelCalls |-> nModel, agentCalls |-> nAgent]

\* res.json(...) or res.status(500).json({error}): the request is answered
Done(op, k, m, tools, status, error, nModel, nAgent) ==
    [pc |-> "done", op |-> op, key |-> k, msg |-> m, tools |-> tools,
     status |-> status, error |-> error,
     modelCalls |-> nModel, agentCalls |-> nAgent]

\* the conditions behind the thrown messages:
\*   "Public key is required", "Message and public key are required"
MissingParameter == "MissingParameter"
\*   "Session not found - please connect wallet first", "Session not found"
SessionNotFound == "SessionNotFound"
\*   whatever the agent kit, the model or a price source throws
AgentError == "AgentError"
ModelInvocationError == "ModelInvocationError"
ExternalFetchError == "ExternalFetchError"
NoError == "none"

\* what the two external constructors of init-session may do
InitOutcomes == {"ok", "agentThrows", "toolsThrow"}

\* POST /api/init-session: no await, one step
\* (faulty variant: a failed init deletes the key's session)
InitSessionDropOnError(r, k, outcome) ==
    /\ req[r].pc = "idle"
    /\ UNCHANGED cacheVars
    /\ IF Falsy(k) \/ outcome # "ok"
         THEN /\ req' = [req EXCEPT ![r] =
                    Done("init", k, "", NoTools, 500,
                         IF Falsy(k) THEN MissingParameter ELSE AgentError, 0, 0)]
              /\ userSessions' = [x \in DOMAIN userSessions \ {k} |-> userSessions[x]]
              /\ UNCHANGED <<nextAgent, initLog>>
         ELSE /\ nextAgent <= MaxAgents
              /\ LET agent == Agent(nextAgent, k) IN
                   /\ userSessions' = MapSet(userSessions, k,
                          [agent |-> agent, tools |-> CreateTools(agent)])
                   /\ initLog' = [x \in DOMAIN initLog \cup {k} |->
                                    IF x = k THEN agent ELSE initLog[x]]
              /\ nextAgent' = nextAgent + 1
              /\ req' = [req EXCEPT ![r] =
                    Done("init", k, "", NoTools, 200, NoError, 0, 0)]

\* (faulty variant: a re-init keeps the tools the key already has)
InitSessionKeepsTools(r, k, outcome) ==
    /\ req[r].pc = "idle"
    /\ UNCHANGED cacheVars
    /\ IF Falsy(k) \/ outcome = "agentThrows"
         THEN /\ req' = [req EXCEPT ![r] =
                    Done("init", k, "", NoTools, 500,
                         IF Falsy(k) THEN MissingParameter ELSE AgentError, 0, 0)]
              /\ UNCHANGED <<userSessions, nextAgent, initLog>>
         ELSE /\ nextAgent <= MaxAgents
              /\ nextAgent' = nextAgent + 1
              /\ IF outcome = "toolsThrow"
                   THEN /\ req' = [req EXCEPT ![r] =
                              Done("init", k, "", NoTools, 500, AgentError, 0, 0)]
                        /\ UNCHANGED <<userSessions, initLog>>
                   ELSE LET agent == Agent(nextAgent, k) IN
                        /\ userSessions' = MapSet(userSessions, k,
                              [agent |-> agent,
                               tools |-> IF HasSession(userSessions, k)
                                           THEN userSessions[k].tools
                                           ELSE CreateTools(agent)])
                        /\ initLog' = [x \in DOMAIN initLog \cup {k} |->
                                         IF x = k THEN agent ELSE initLog[x]]
                        /\ req' = [req EXCEPT ![r] =
                              Done("init", k, "", NoTools, 200, NoError, 0, 0)]

InitSession(r, k, outcome) ==
    /\ req[r].pc = "idle"
    /\ UNCHANGED cacheVars
    /\ CASE Falsy(k) ->
             /\ req' = [req EXCEPT ![r] =
                   Done("init", k, "", NoTools, 500, MissingParameter, 0, 0)]
             /\ UNCHANGED <<userSessions, nextAgent, initLog>>
        [] ~Falsy(k) /\ outcome = "agentThrows" ->
             \* new SolanaAgentKit throws: nothing was built
             /\ req' = [req EXCEPT ![r] =
                   Done("init", k, "", NoTools, 500, AgentError, 0, 0)]
             /\ UNCHANGED <<userSessions, nextAgent, initLog>>
        [] ~Falsy(k) /\ outcome = "toolsThrow" ->
             \* createVercelAITools throws: the agent is dropped
             /\ nextAgent <= MaxAgents
             /\ req' = [req EXCEPT ![r] =
                   Done("init", k, "", NoTools, 500, AgentError, 0, 0)]
             /\ nextAgent' = nextAgent + 1
             /\ UNCHANGED <<userSessions, initLog>>
        [] ~Falsy(k) /\ outcome = "ok" ->
             /\ nextAgent <= MaxAgents
             /\ LET agent == Agent(nextAgent, k) IN
                  /\ userSessions' = MapSet(userSessions, k,
                         [agent |-> agent, tools |-> CreateTools(agent)])
                  /\ initLog' = [x \in DOMAIN initLog \cup {k} |->
                                    IF x = k THEN agent ELSE initLog[x]]
             /\ nextAgent' = nextAgent + 1
             /\ req' = [req EXCEPT ![r] =
                   Done("init", k, "", NoTools, 200, NoError, 0, 0)]

\* POST /api/chat up to await streamText(...)
\* (faulty variant: a missing session is not refused)
ChatOptionalSession(r, k, m) ==
    /\ req[r].pc = "idle"
    /\ UNCHANGED cacheVars
    /\ UNCHANGED <<userSessions, nextAgent, initLog>>
    /\ IF Falsy(m) \/ Falsy(k)
         THEN req' = [req EXCEPT ![r] =
                  Done("chat", k, m, NoTools, 500, MissingParameter, 0, 0)]
         ELSE req' = [req EXCEPT ![r] =
                  Pending("chat", k, m, "model",
                          IF HasSession(userSessions, k)
                            THEN userSessions[k].tools ELSE NoTools, 1, 0)]

\* (faulty variant: only the key is required)
ChatAnyMessage(r, k, m) ==
    /\ req[r].pc = "idle"
    /\ UNCHANGED cacheVars
    /\ UNCHANGED <<userSessions, nextAgent, initLog>>
    /\ IF Falsy(k)
         THEN req' = [req EXCEPT ![r] =
                  Done("chat", k, m, NoTools, 500, MissingParameter, 0, 0)]
         ELSE IF ~HasSession(userSessions, k)
           THEN req' = [req EXCEPT ![r] =
                    Done("chat", k, m, NoTools, 500, SessionNotFound, 0, 0)]
           ELSE req' = [req EXCEPT ![r] =
                    Pending("chat", k, m, "model", userSessions[k].tools, 1, 0)]

Chat(r, k, m) ==
    /\ req[r].pc = "idle"
    /\ UNCHANGED cacheVars
    /\ UNCHANGED <<userSessions, nextAgent, initLog>>
    /\ IF Falsy(m) \/ Falsy(k)
         THEN req' = [req EXCEPT ![r] =
                  Done("chat", k, m, NoTools, 500, MissingParameter, 0, 0)]
         ELSE IF ~HasSession(userSessions, k)
           THEN req' = [req EXCEPT ![r] =
                    Done("chat", k, m, NoTools, 500, SessionNotFound, 0, 0)]
           ELSE req' = [req EXCEPT ![r] =
                    Pending("chat", k, m, "model", userSessions[k].tools, 1, 0)]

\* streamText and its textStream ran to the end: res.json({response})
ChatModelDone(r) ==
    /\ req[r].pc = "model"
    /\ req' = [req EXCEPT ![r] =
          Done("chat", req[r].key, req[r].msg, req[r].tools, 200, NoError,
               req[r].modelCalls, req[r].agentCalls)]
    /\ UNCHANGED cacheVars
    /\ UNCHANGED <<userSessions, nextAgent, initLog>>

\* streamText or its textStream throws: the catch block answers 500
\* (faulty variant: the first failure is answered by a second invocation)
ChatModelThrowRetries(r) ==
    /\ req[r].pc = "model"
    /\ req' = [req EXCEPT ![r] =
          IF req[r].modelCalls < 2
            THEN Pending("chat", req[r].key, req[r].msg, "model", req[r].tools,
                         req[r].modelCalls + 1, req[r].agentCalls)
            ELSE Done("chat", req[r].key, req[r].msg, req[r].tools, 500,
                      ModelInvocationError, req[r].modelCalls, req[r].agentCalls)]
    /\ UNCHANGED cacheVars
    /\ UNCHANGED <<userSessions, nextAgent, initLog>>

ChatModelThrow(r) ==
    /\ req[r].pc = "model"
    /\ req' = [req EXCEPT ![r] =
          Done("chat", req[r].key, req[r].msg, req[r].tools, 500,
               ModelInvocationError, req[r].modelCalls, req[r].agentCalls)]
    /\ UNCHANGED cacheVars
    /\ UNCHANGED <<userSessions, nextAgent, initLog>>

\* POST /api/sign-transaction: no await, one step
\* (faulty variant: signing consumes the session)
SignTransactionConsumes(r, k) ==
    /\ req[r].pc = "idle"
    /\ req' = [req EXCEPT ![r] =
          IF ~HasSession(userSessions, k)
            THEN Done("sign", k, "", NoTools, 500, SessionNotFound, 0, 0)
            ELSE Done("sign", k, "", NoTools, 200, NoError, 0, 0)]
    /\ userSessions' = [x \in DOMAIN userSessions \ {k} |-> userSessions[x]]
    /\ UNCHANGED cacheVars
    /\ UNCHANGED <<nextAgent, initLog>>

SignTransaction(r, k) ==
    /\ req[r].pc = "idle"
    /\ req' = [req EXCEPT ![r] =
          IF ~HasSession(userSessions, k)
            THEN Done("sign", k, "", NoTools, 500, SessionNotFound, 0, 0)
            ELSE Done("sign", k, "", NoTools, 200, NoError, 0, 0)]
    /\ UNCHANGED cacheVars
    /\ UNCHANGED <<userSessions, nextAgent, initLog>>

\* GET /api/portfolio/:publicKey up to await session.agent.get_token_balance()
\* (faulty variant: the handler waits while another request is suspended)
PortfolioWaitsForOthers(r, k) ==
    /\ req[r].pc = "idle"
    /\ \A x \in DOMAIN req : req[x].pc \in {"idle", "done"}
    /\ ~Falsy(k)
    /\ req' = [req EXCEPT ![r] =
          IF ~HasSession(userSessions, k)
            THEN Done("portfolio", k, "", NoTools, 500, SessionNotFound, 0, 0)
            ELSE Pending("portfolio", k, "", "balances", NoTools, 0, 1)]
    /\ UNCHANGED cacheVars
    /\ UNCHANGED <<userSessions, nextAgent, initLog>>

Portfolio(r, k) ==
    /\ req[r].pc = "idle"
    \* the route matches no empty :publicKey
    /\ ~Falsy(k)
    /\ req' = [req EXCEPT ![r] =
          IF ~HasSession(userSessions, k)
            THEN Done("portfolio", k, "", NoTools, 500, SessionNotFound, 0, 0)
            ELSE Pending("portfolio", k, "", "balances", NoTools, 0, 1)]
    /\ UNCHANGED cacheVars
    /\ UNCHANGED <<userSessions, nextAgent, initLog>>

\* Amounts (balances, USD values) are fixed-point numbers of nine decimals,
\* held as their count of 10^-9; prices are whole dollars.
\* Number(x.toFixed(d)) of an amount x >= 0: the nearest multiple of
\* 10^-d, a tie going up
ToFixed(x, d) == LET q == 10^(9 - d) IN ((x + q \div 2) \div q) * q

\* an element of balances.tokens
Token(sym, name, bal, addr) ==
    [symbol |-> sym, name |-> name, balance |-> bal, tokenAddress |-> addr]

\* what session.agent.get_token_balance() resolves to for the agent of
\* wallet k: walletA holds a priced token and a stable one, walletB a
\* stable one alone, walletC two priced tokens around a stable one
Balances(k) ==
    CASE k = "walletA" ->
           [sol |-> 500000000,
            tokens |-> <<Token("BONK", "Bonk", 123456789, "addrBONK"),
                         Token("USDC", "USD Coin", 504999999, "addrUSDC")>>]
      [] k = "walletB" ->
           [sol |-> 0,
            tokens |-> <<Token("USDC", "USD Coin", 20000000, "addrUSDC")>>]
      [] k = "walletC" ->
           [sol |-> 123456789,
            tokens |-> <<Token("BONK", "Bonk", 123456789, "addrBONK"),
                         Token("USDC", "USD Coin", 125000000, "addrUSDC"),
                         Token("JUP", "Jupiter", 250000004, "addrJUP")>>]

\* what getPythPrice and fetchTokenPrice may resolve to
SolPrices == {2}
TokenPrices == {3}

\* the state of the fetchTokenPrice call of one token
NoLookup == [t |-> "none"]
LookupPending == [t |-> "pending"]
LookupThrew == [t |-> "threw"]

\* token.symbol === 'USDC' is false: the price is looked up
\* (faulty variant: every token's price is looked up)
NeedsLookupAlways(token) == TRUE
NeedsLookup(token) == token.symbol # "USDC"

\* usdValue at the end of the map callback: the balance of USDC, balance
\* times price when the lookup resolved, the initial 0 when it threw
UsdValue(token, lookup) ==
    IF ~NeedsLookup(token) THEN token.balance
    ELSE IF lookup.t = "number" THEN token.balance * lookup.v
    ELSE 0

\* the object the map callback returns
FormattedToken(token, lookup) ==
    [token |-> token.symbol, symbol |-> token.name,
     balance |-> ToFixed(token.balance, 8),
     usdValue |-> ToFixed(UsdValue(token, lookup), 2)]

\* x || 0
OrZero(x) == IF x \in {Undefined, Null, Num(0)} THEN Num(0) ELSE x

\* entry?.usd, entry?.usd_24h_change
OptUsd(e) == IF e = Undefined THEN Undefined ELSE e.usd
OptChange(e) == IF e = Undefined THEN Undefined ELSE e.usd_24h_change

\* watchlistPrices: three getPrice calls in one synchronous segment
\* (faulty variant: BTC was read when the handler began, from an empty cache)
WatchlistPricesEarlyBTC(c) ==
    [s \in Symbols |-> IF s = "BTC" THEN Undefined ELSE CacheGet(c, s)]
WatchlistPrices(c) == [s \in Symbols |-> CacheGet(c, s)]

\* the watchlist block of the response
Watchlist(prices) ==
    [s \in Symbols |-> [price |-> OrZero(OptUsd(prices[s])),
                        change |-> OrZero(OptChange(prices[s]))]]

\* the response object of the portfolio handler
PortfolioBody(balances, solPrice, lookups, prices) ==
    [sol |-> ToFixed(balances.sol, 8),
     solPrice |-> solPrice,
     solUsdValue |-> ToFixed(ToFixed(balances.sol, 8) * solPrice, 2),
     tokens |-> [i \in DOMAIN balances.tokens |->
                    FormattedToken(balances.tokens[i], lookups[i])],
     watchlist |-> Watchlist(prices)]

\* the portfolio handler between get_token_balance and the response: its
\* locals balances, solPrice and the state of each token's price lookup
PortfolioAt(at, k, nAgent, balances, solPrice, lookups) ==
    [pc |-> at, op |-> "portfolio", key |-> k, msg |-> "", tools |-> NoTools,
     modelCalls |-> 0, agentCalls |-> nAgent,
     balances |-> balances, solPrice |-> solPrice, lookups |-> lookups]

\* res.json(response), with the locals the response was built from
PortfolioDone(k, nAgent, balances, solPrice, lookups, prices) ==
    [pc |-> "done", op |-> "portfolio", key |-> k, msg |-> "", tools |-> NoTools,
     status |-> 200, error |-> NoError,
     modelCalls |-> 0, agentCalls |-> nAgent,
     balances |-> balances, solPrice |-> solPrice, lookups |-> lookups,
     watchlistPrices |-> prices,
     body |-> PortfolioBody(balances, solPrice, lookups, prices)]

\* await Promise.all(...): suspended while a lookup is pending; once none
\* is, the handler runs on to res.json in the same turn of the event loop
PortfolioJoin(k, nAgent, balances, solPrice, lookups) ==
    IF \E i \in DOMAIN lookups : lookups[i] = LookupPending
      THEN PortfolioAt("tokens", k, nAgent, balances, solPrice, lookups)
      ELSE PortfolioDone(k, nAgent, balances, solPrice, lookups,
                         WatchlistPrices(cache))

\* the awaits of the portfolio handler, in order: get_token_balance,
\* getPythPriceFeedID, getPythPrice, Promise.all of the token prices
PortfolioNextAwait(at) ==
    CASE at = "balances" -> "feedId"
      [] at = "feedId" -> "solPrice"
      [] at = "solPrice" -> "tokens"
      [] at = "tokens" -> "done"
PortfolioAwaits == {"balances", "feedId", "solPrice", "tokens"}

\* await session.agent.get_token_balance() resolves: on to getPythPriceFeedID
PortfolioBalances(r) ==
    /\ req[r].pc = "balances"
    /\ req' = [req EXCEPT ![r] =
          PortfolioAt(PortfolioNextAwait("balances"), req[r].key,
                      req[r].agentCalls + 1, Balances(req[r].key),
                      Undefined, <<>>)]
    /\ UNCHANGED cacheVars
    /\ UNCHANGED <<userSessions, nextAgent, initLog>>

\* await session.agent.getPythPriceFeedID("SOL") resolves: on to getPythPrice
PortfolioFeedId(r) ==
    /\ req[r].pc = "feedId"
    /\ req' = [req EXCEPT ![r] =
          PortfolioAt(PortfolioNextAwait("feedId"), req[r].key,
                      req[r].agentCalls + 1, req[r].balances, Undefined, <<>>)]
    /\ UNCHANGED cacheVars
    /\ UNCHANGED <<userSessions, nextAgent, initLog>>

\* await session.agent.getPythPrice(...) resolves to p: the map callback
\* runs for every token up to its await, starting the lookups
PortfolioSolPrice(r, p) ==
    /\ req[r].pc = "solPrice"
    /\ LET tokens == req[r].balances.tokens
           lookups == [i \in DOMAIN tokens |->
                          IF NeedsLookup(tokens[i]) THEN LookupPending
                                                    ELSE NoLookup]
           started == Cardinality({i \in DOMAIN tokens : NeedsLookup(tokens[i])})
       IN  req' = [req EXCEPT ![r] =
               PortfolioJoin(req[r].key, req[r].agentCalls + started,
                             req[r].balances, p, lookups)]
    /\ UNCHANGED cacheVars
    /\ UNCHANGED <<userSessions, nextAgent, initLog>>

\* await session.agent.fetchTokenPrice(token.tokenAddress) of the i-th
\* token resolves to price
TokenPriceResolve(r, i, price) ==
    /\ req[r].pc = "tokens"
    /\ i \in DOMAIN req[r].lookups
    /\ req[r].lookups[i] = LookupPending
    /\ req' = [req EXCEPT ![r] =
          PortfolioJoin(req[r].key, req[r].agentCalls, req[r].balances,
                        req[r].solPrice,
                        [req[r].lookups EXCEPT ![i] = Num(price)])]
    /\ UNCHANGED cacheVars
    /\ UNCHANGED <<userSessions, nextAgent, initLog>>

\* that call rejects: the callback's catch block logs, usdValue stays 0
\* (faulty variant: the rejection reaches the handler's catch block)
TokenPriceThrowAborts(r, i) ==
    /\ req[r].pc = "tokens"
    /\ i \in DOMAIN req[r].lookups
    /\ req[r].lookups[i] = LookupPending
    /\ req' = [req EXCEPT ![r] =
          Done("portfolio", req[r].key, "", NoTools, 500, ExternalFetchError,
               0, req[r].agentCalls)]
    /\ UNCHANGED cacheVars
    /\ UNCHANGED <<userSessions, nextAgent, initLog>>

TokenPriceThrow(r, i) ==
    /\ req[r].pc = "tokens"
    /\ i \in DOMAIN req[r].lookups
    /\ req[r].lookups[i] = LookupPending
    /\ req' = [req EXCEPT ![r] =
          PortfolioJoin(req[r].key, req[r].agentCalls, req[r].balances,
                        req[r].solPrice,
                        [req[r].lookups EXCEPT ![i] = LookupThrew])]
    /\ UNCHANGED cacheVars
    /\ UNCHANGED <<userSessions, nextAgent, initLog>>

\* an awaited agent call outside the per-token try block rejects
PortfolioThrow(r) ==
    /\ req[r].pc \in PortfolioAwaits \ {"tokens"}
    /\ req' = [req EXCEPT ![r] =
          Done("portfolio", req[r].key, "", NoTools, 500, ExternalFetchError,
               0, req[r].agentCalls)]
    /\ UNCHANGED cacheVars
    /\ UNCHANGED <<userSessions, nextAgent, initLog>>

\* the positions a token may have in balances.tokens
TokenIndexes ==
    UNION {DOMAIN Balances(k).tokens : k \in {"walletA", "walletB", "walletC"}}

\* the client has read the answer: the next request may come
Release(r) ==
    /\ req[r].pc = "done"
    /\ req' = [req EXCEPT ![r] = Idle]
    /\ UNCHANGED cacheVars
    /\ UNCHANGED <<userSessions, nextAgent, initLog>>

\* the handlers of server.ts, serving the requests R of clients that send
\* the keys K
Handlers(R, K) ==
    \/ \E r \in R, k \in K, o \in InitOutcomes : InitSession(r, k, o)
    \/ \E r \in R, k \in K, m \in Messages : Chat(r, k, m)
    \/ \E r \in R : ChatModelDone(r)
    \/ \E r \in R : ChatModelThrow(r)
    \/ \E r \in R, k \in K : SignTransaction(r, k)
    \/ \E r \in R, k \in K : Portfolio(r, k)
    \/ \E r \in R : PortfolioBalances(r)
    \/ \E r \in R : PortfolioFeedId(r)
    \/ \E r \in R, p \in SolPrices : PortfolioSolPrice(r, p)
    \/ \E r \in R, i \in TokenIndexes, p \in TokenPrices : TokenPriceResolve(r, i, p)
    \/ \E r \in R, i \in TokenIndexes : TokenPriceThrow(r, i)
    \/ \E r \in R : PortfolioThrow(r)
    \/ \E r \in R : Release(r)

ServerOp == Handlers(Reqs, Keys)

\* one call of updatePrices runs on from an await, a parsed body being one
\* of P
RefreshStep(P) ==
    \/ \E a \in DOMAIN attempts : FetchResolve(a)
    \/ \E a \in DOMAIN attempts : FetchThrow(a)
    \/ \E a \in DOMAIN attempts : JsonThrow(a)
    \/ \E a \in DOMAIN attempts, data \in P : JsonResolve(a, data)

\* the bodies of the feed that differ in what updatePrices does with them
FewPayloads ==
    {Null, [c \in CoinIds |-> Undefined], [c \in CoinIds |-> QuoteA]}

\* every handler beside the price cache, up to the first tick of its timer
ProcessOp ==
    \/ Handlers(Clients, Keys)
    \/ RefreshStep(FewPayloads)
    \/ \E s \in Symbols : GetPrice(s)

\* the portfolio route beside the price cache: the clients of walletC
PortfolioOp ==
    \/ \E r \in Clients, o \in InitOutcomes : InitSession(r, "walletC", o)
    \/ \E r \in Clients : Portfolio(r, "walletC")
    \/ \E r \in Clients : PortfolioBalances(r)
    \/ \E r \in Clients : PortfolioFeedId(r)
    \/ \E r \in Clients, p \in SolPrices : PortfolioSolPrice(r, p)
    \/ \E r \in Clients, i \in TokenIndexes, p \in TokenPrices : TokenPriceResolve(r, i, p)
    \/ \E r \in Clients, i \in TokenIndexes : TokenPriceThrow(r, i)
    \/ \E r \in Clients : PortfolioThrow(r)
    \/ \E r \in Clients : Release(r)
    \/ RefreshStep(Payloads)

\* new PriceCacheService(): the first updatePrices() is suspended in fetch,
\* the interval timer is set; server.ts: userSessions = new Map()
Init ==
    /\ now = 0
    /\ cache = EmptyMap
    /\ timerArmed = TRUE
    /\ nextFire = CACHE_DURATION
    /\ attempts = <<NewAttempt(0)>>
    /\ lastRead = NoRead
    /\ log = NoLog
    /\ userSessions = EmptyMap
    /\ nextAgent = 1
    /\ req = [r \in Reqs |-> Idle]
    /\ initLog = EmptyMap

Next == ClockTick \/ PriceCacheOp \/ ServerOp

\* the price cache alone, the handlers alone, and the whole process
SpecCache == Init /\ [][NextCache]_vars
SpecServer == Init /\ [][ServerOp]_vars
SpecPortfolio == Init /\ [][PortfolioOp]_vars
SpecProcess == Init /\ [][ProcessOp]_vars
Spec == Init /\ [][Next]_vars

(***************************************************************************)
(* Properties of the price cache, checked under SpecCache.                 *)
(***************************************************************************)
\* attempt a ends in this step
Completes(a) == attempts[a].pc # "done" /\ attempts'[a].pc = "done"

\* attempt a replaced the cache
Updated(a) == attempts[a].outcome = "updated"

\* the body lacks a tracked symbol (null lacks them all)
Omits(data) == data = Null \/ \E c \in CoinIds : data[c] = Undefined

\* a price a PriceCacheEntry may hold: a number, not negative
Usable(x) == x.t = "number" /\ x.v >= 0

\* every tracked symbol is there, and some quote has no usable price
Malformed(data) ==
    /\ ~Omits(data)
    /\ \E c \in CoinIds : ~Usable(data[c].usd) \/ data[c].usd_24h_change.t # "number"

\* C4: until a refresh has succeeded getPrice returns absent for every
\* tracked symbol; once one has, getPrice returns for every tracked symbol
\* an entry whose last_updated is not before the start of any refresh that
\* has succeeded.
C4_AbsentThenFresh ==
    /\ (\A a \in DOMAIN attempts : ~Updated(a)) =>
          \A s \in Symbols : CacheGet(cache, s) = Undefined
    /\ \A a \in DOMAIN attempts : Updated(a) =>
          \A s \in Symbols :
             /\ CacheGet(cache, s) # Undefined
             /\ CacheGet(cache, s).last_updated >= attempts[a].start

\* a refresh that took time has succeeded, and a later one is still in flight
C4_Witness ==
    /\ \E a \in DOMAIN attempts :
          Updated(a) /\ CacheGet(cache, "SOL").last_updated > attempts[a].start
    /\ \E a \in DOMAIN attempts : attempts[a].pc # "done"

\* C5: an attempt whose fetch or body parse throws, or whose body lacks a
\* tracked symbol, leaves the cache, and so what getPrice returns, as it was.
C5_FailedRefreshKeepsCache ==
    [][\A a \in DOMAIN attempts :
          (Completes(a) /\ (log' = Thrown \/ Omits(log'))) =>
             /\ cache' = cache
             /\ \A s \in Symbols : CacheGet(cache', s) = CacheGet(cache, s)]_vars

\* a populated cache has outlived an attempt that threw or lacked a symbol
C5_Witness ==
    /\ DOMAIN cache = Symbols
    /\ \E a \in DOMAIN attempts :
          /\ attempts[a].outcome \in {"failed", "invalid"}
          /\ cache["BTC"].fetchedBy < a
    /\ (log = Thrown \/ Omits(log))

\* C6: an attempt whose body has every tracked symbol but a quote with no
\* usable price or change leaves the cache as it was, and every entry of the
\* cache holds a defined, non-negative usd.
C6_MalformedAbandoned ==
    [][/\ \A a \in DOMAIN attempts :
            (Completes(a) /\ log' # Thrown /\ Malformed(log')) => cache' = cache
       /\ \A s \in DOMAIN cache' : Usable(cache'[s].usd)]_vars

\* C7: the cache holds no entry or one per tracked symbol, all built from
\* the response of one attempt.
C7_AtomicGroup ==
    /\ DOMAIN cache \in {{}, Symbols}
    /\ \A s, t \in DOMAIN cache : cache[s].fetchedBy = cache[t].fetchedBy
    /\ lastRead.value # Undefined =>
          \E a \in DOMAIN attempts : Updated(a) /\ lastRead.value.fetchedBy = a

\* the cache has been replaced twice, and read
C7_Witness ==
    /\ DOMAIN cache = Symbols
    /\ \A a \in DOMAIN attempts : Updated(a)
    /\ Len(attempts) >= 2
    /\ lastRead.value # Undefined

\* C8: a getPrice call returns the cache's slot of its symbol, changes no
\* entry and starts no fetch; the cache changes only in a step in which an
\* attempt ends with the cache replaced. So calls with no refresh ending
\* between them return the same.
C8_GetPricePure ==
    [][/\ lastRead' # lastRead =>
            /\ cache' = cache
            /\ attempts' = attempts
            /\ lastRead'.value = CacheGet(cache, lastRead'.symbol)
       /\ cache' # cache =>
            /\ lastRead' = lastRead
            /\ \E a \in DOMAIN attempts : Completes(a) /\ attempts'[a].outcome = "updated"]_vars

\* an entry was read while a refresh is in flight
C8_Witness ==
    /\ lastRead.value # Undefined
    /\ lastRead.value = CacheGet(cache, lastRead.symbol)
    /\ \E a \in DOMAIN attempts : attempts[a].pc \in {"fetch", "json"}

\* C9: whenever the interval timer is live, the price cache has an
\* operation that stops it, after which no attempt is started.
C9_TimerCancellable == timerArmed => ENABLED (PriceCacheOp /\ ~timerArmed')

\* the calls the interval timer has made of its callback
Ticks == nextFire \div CACHE_DURATION - 1

\* C13: the attempts started are the constructor's and one per tick of the
\* interval timer, each at its tick; the step that starts one is a tick and
\* nothing else: no step in which an attempt ends, whatever its outcome,
\* and no getPrice call starts one.
C13_OneAttemptPerTick ==
    [][/\ Len(attempts') = Ticks' + 1
       /\ \A a \in DOMAIN attempts' : attempts'[a].start = (a - 1) * CACHE_DURATION
       /\ Len(attempts') # Len(attempts) =>
             /\ Ticks' = Ticks + 1 /\ now = nextFire
             /\ attempts' = Append(attempts, NewAttempt(now))
             /\ lastRead' = lastRead /\ log' = log /\ cache' = cache
       /\ (\E a \in DOMAIN attempts : Completes(a)) => Len(attempts') = Len(attempts)
       /\ lastRead' # lastRead => attempts' = attempts]_vars

\* two ticks and three attempts, the first of which threw and the second
\* of which was abandoned, and a getPrice call that found nothing
C13_Witness ==
    /\ Ticks = 2 /\ Len(attempts) = 3
    /\ attempts[1].outcome = "failed" /\ attempts[2].outcome = "invalid"
    /\ attempts[3].pc = "fetch"
    /\ lastRead.symbol = "BTC" /\ lastRead.value = Undefined

\* C19: the cache never goes back: an entry built from the response of one
\* attempt is never replaced by an entry built from the response of an
\* attempt that started earlier, so every entry comes from the attempt
\* that started last among those that replaced the cache.
C19_CacheNeverRegresses ==
    [][/\ \A s \in DOMAIN cache \cap DOMAIN cache' :
            attempts[cache'[s].fetchedBy].start >= attempts[cache[s].fetchedBy].start
       /\ \A s \in DOMAIN cache' : \A a \in DOMAIN attempts' :
            attempts'[a].outcome = "updated" => cache'[s].fetchedBy >= a]_vars

(***************************************************************************)
(* Properties of the handlers, checked under SpecServer.                   *)
(***************************************************************************)
\* request r is answered in this step, by handler op
Answers(r, op) ==
    req[r].pc # "done" /\ req'[r].pc = "done" /\ req'[r].op = op

\* request r is suspended in, or was answered by, handler op
InOp(r, ops) == req[r].pc # "idle" /\ req[r].op \in ops

\* the keys a successful init was given
Initialized == DOMAIN initLog

\* C1 as claimed: for a key never given to a successful init, chat with any
\* message and getPortfolio end with SessionNotFound, with no call of the
\* model or of an agent.
C1_UninitializedNotFoundAnyMessage ==
    \A r \in Reqs :
       (InOp(r, {"chat", "portfolio"}) /\ req[r].key \notin Initialized) =>
          /\ req[r].pc = "done"
          /\ req[r].error = SessionNotFound
          /\ req[r].modelCalls = 0 /\ req[r].agentCalls = 0

\* C1 as amended: for a non-empty key never given to a successful init,
\* chat with a non-empty message and getPortfolio end with SessionNotFound,
\* with no call of the model or of an agent; with an empty key or an empty
\* message chat ends with MissingParameter, also with no such call.
C1_UninitializedNotFound ==
    \A r \in Reqs :
       (InOp(r, {"chat", "portfolio"}) /\ req[r].key \notin Initialized) =>
          /\ req[r].pc = "done"
          /\ req[r].error =
                IF Falsy(req[r].key) \/ (req[r].op = "chat" /\ Falsy(req[r].msg))
                  THEN MissingParameter ELSE SessionNotFound
          /\ req[r].modelCalls = 0 /\ req[r].agentCalls = 0

\* another key has a session and a chat running, and both a chat and a
\* portfolio request for a key never initialized were answered
C1_Witness ==
    /\ "walletB" \in Initialized
    /\ "walletA" \notin Initialized
    /\ \E r \in Reqs :
          /\ InOp(r, {"chat"}) /\ req[r].pc = "done"
          /\ req[r].key = "walletA" /\ req[r].msg = "hello"
          /\ req[r].error = SessionNotFound
    /\ \E r \in Reqs :
          /\ InOp(r, {"portfolio"}) /\ req[r].pc = "done"
          /\ req[r].key = "walletA"
          /\ req[r].error = SessionNotFound

\* C2: a key the store holds stays in the store, every key given to a
\* successful init is in the store, and no chat with a non-empty message
\* for such a key is answered SessionNotFound.
C2_SessionPersists ==
    [][/\ \A k \in DOMAIN userSessions : k \in DOMAIN userSessions'
       /\ Initialized' \subseteq DOMAIN userSessions'
       /\ \A r \in Reqs :
            (Answers(r, "chat") /\ req'[r].error = SessionNotFound) =>
               req'[r].key \notin Initialized]_vars

\* a chat for walletA was answered by the model after walletA and then
\* walletB were initialized
C2_Witness ==
    /\ Initialized = {"walletA", "walletB"}
    /\ initLog["walletA"].id < initLog["walletB"].id
    /\ \E r \in Reqs :
          /\ InOp(r, {"chat"}) /\ req[r].pc = "done"
          /\ req[r].key = "walletA" /\ req[r].status = 200
          /\ req[r].tools = CreateTools(initLog["walletA"])

\* C3: a successful init(k) stores a session of a new agent, and a chat
\* that looks its session up invokes the model with the tools of the agent
\* of the last successful init of its key.
C3_LatestInitWins ==
    [][/\ \A k \in Initialized' :
            (k \notin Initialized \/ initLog'[k] # initLog[k]) =>
               /\ initLog'[k].id = nextAgent
               /\ userSessions'[k] =
                     [agent |-> initLog'[k], tools |-> CreateTools(initLog'[k])]
       /\ \A r \in Reqs :
            (req[r].pc = "idle" /\ req'[r].pc = "model") =>
               /\ req'[r].key \in Initialized
               /\ req'[r].tools = CreateTools(initLog[req'[r].key])
               /\ req'[r].modelCalls = 1]_vars

\* two chats of one key are at the model, one begun before a re-init with
\* the old tools, one begun after it with the new
C3_Witness ==
    \E r1, r2 \in Reqs :
       /\ req[r1].pc = "model" /\ req[r2].pc = "model"
       /\ req[r1].key = req[r2].key
       /\ req[r1].tools.boundTo < req[r2].tools.boundTo
       /\ req[r2].tools = CreateTools(initLog[req[r2].key])

\* C10: an init with an empty or absent key is answered MissingParameter,
\* and an init answered with an error leaves the whole store as it was.
C10_FailedInitKeepsStore ==
    [][\A r \in Reqs :
          Answers(r, "init") =>
             /\ Falsy(req'[r].key) <=> req'[r].error = MissingParameter
             /\ req'[r].error # NoError =>
                   userSessions' = userSessions /\ initLog' = initLog]_vars

\* with a session of walletA in the store, an init without a key and a
\* re-init of walletA whose agent could not be built were both refused
C10_Witness ==
    /\ "walletA" \in DOMAIN userSessions
    /\ \E r1, r2 \in Reqs :
          /\ InOp(r1, {"init"}) /\ req[r1].error = MissingParameter
          /\ InOp(r2, {"init"}) /\ req[r2].key = "walletA"
          /\ req[r2].error = AgentError

\* C15: a chat with an empty or absent message or key is answered
\* MissingParameter in its first step, whether the store holds a session
\* of its key or not, with the store as it was and no call of the model;
\* no such chat is ever suspended at the model.
C15_ChatValidatesFirst ==
    [][\A r \in Reqs :
          /\ (Answers(r, "chat") /\ (Falsy(req'[r].msg) \/ Falsy(req'[r].key))) =>
                /\ req[r].pc = "idle"
                /\ req'[r].status = 500 /\ req'[r].error = MissingParameter
                /\ req'[r].modelCalls = 0
                /\ userSessions' = userSessions
          /\ req'[r].pc = "model" =>
                ~Falsy(req'[r].msg) /\ ~Falsy(req'[r].key)]_vars

\* a chat without a message for a wallet that has a session, and a chat
\* without a key, were both answered MissingParameter
C15_Witness ==
    \E r1, r2 \in Reqs :
       /\ InOp(r1, {"chat"}) /\ req[r1].pc = "done"
       /\ req[r1].key \in DOMAIN userSessions /\ req[r1].msg = ""
       /\ req[r1].error = MissingParameter /\ req[r1].modelCalls = 0
       /\ InOp(r2, {"chat"}) /\ req[r2].pc = "done"
       /\ req[r2].key = "" /\ req[r2].msg = "hello"
       /\ req[r2].error = MissingParameter

\* C16: a chat request calls the model once, in its first step; the step
\* that ends the call answers the request, with the text or with
\* ModelInvocationError; and the step in which the call throws answers
\* with ModelInvocationError, starting no second call.
C16_ModelCalledOnce ==
    [][\A r \in Reqs :
          /\ (req'[r].pc = "model" /\ req'[r] # req[r]) =>
                req[r].pc = "idle" /\ req'[r].modelCalls = 1
          /\ (req[r].pc = "model" /\ req'[r] # req[r]) =>
                /\ req'[r].pc = "done" /\ req'[r].op = "chat"
                /\ req'[r].modelCalls = 1
                /\ \/ req'[r].status = 200 /\ req'[r].error = NoError
                   \/ req'[r].status = 500 /\ req'[r].error = ModelInvocationError
          /\ ChatModelThrow(r) =>
                /\ req'[r].pc = "done"
                /\ req'[r].status = 500 /\ req'[r].error = ModelInvocationError]_vars

\* of two chats of one wallet the model answered one and failed the other,
\* each after one call
C16_Witness ==
    \E r1, r2 \in Reqs :
       /\ InOp(r1, {"chat"}) /\ req[r1].pc = "done" /\ req[r1].status = 200
       /\ InOp(r2, {"chat"}) /\ req[r2].pc = "done"
       /\ req[r2].error = ModelInvocationError /\ req[r2].status = 500
       /\ req[r1].key = req[r2].key
       /\ req[r1].modelCalls = 1 /\ req[r2].modelCalls = 1

\* C17: the tools of every session in the store call into the agent of
\* that session, which is the agent of the last successful init of the
\* session's key, built for that key.
C17_ToolsOfOwnAgent ==
    \A k \in DOMAIN userSessions :
       /\ userSessions[k].tools.boundTo = userSessions[k].agent.id
       /\ userSessions[k].agent.wallet = k
       /\ userSessions[k].agent = initLog[k]
       /\ \A j \in DOMAIN userSessions \ {k} :
             userSessions[j].tools # userSessions[k].tools

\* walletA was initialized again while a chat was using its first tools:
\* the store pairs the second agent with the second agent's tools
C17_Witness ==
    /\ "walletA" \in DOMAIN userSessions
    /\ userSessions["walletA"].agent.id = 2
    /\ userSessions["walletA"].tools.boundTo = 2
    /\ \E r \in Reqs :
          /\ req[r].pc = "model" /\ req[r].key = "walletA"
          /\ req[r].tools.boundTo = 1

(***************************************************************************)
(* Properties of the portfolio response, checked under SpecPortfolio.      *)
(***************************************************************************)
\* v is the amount x rounded to d decimals, a tie going up
IsRounded(v, x, d) ==
    LET q == 10^(9 - d) IN v % q = 0 /\ 2 * (x - v) < q /\ 2 * (v - x) <= q

\* the balance query of portfolio request r has resolved
GotBalances(r) == InOp(r, {"portfolio"}) /\ req[r].agentCalls >= 2

\* the positions of the stable token in what wallet k holds
StableAt(k) ==
    {i \in DOMAIN Balances(k).tokens : Balances(k).tokens[i].symbol = "USDC"}

\* C11 as claimed: a portfolio request whose balance query resolved with a
\* USDC token of balance b is answered with a response whose USD value of
\* that token is b rounded to 2 decimals, whether the native price feed and
\* the per-token lookups fail or not.
C11_StableOneToOneAnyFeed ==
    \A r \in Reqs :
       (GotBalances(r) /\ req[r].pc = "done") =>
          /\ req[r].status = 200
          /\ \A i \in StableAt(req[r].key) :
                IsRounded(req[r].body.tokens[i].usdValue,
                          Balances(req[r].key).tokens[i].balance, 2)

\* C11 as amended: every portfolio response gives a USDC token of balance b
\* the USD value b rounded to 2 decimals, with no price looked up for it and
\* whatever the lookups of the other tokens did; a request whose native
\* price feed rejects is answered with an error, not with a response.
C11_StableOneToOne ==
    \A r \in Reqs :
       (GotBalances(r) /\ req[r].pc = "done") =>
          IF req[r].status = 200
            THEN \A i \in DOMAIN req[r].balances.tokens :
                    req[r].balances.tokens[i].symbol = "USDC" =>
                       /\ req[r].lookups[i] = NoLookup
                       /\ IsRounded(req[r].body.tokens[i].usdValue,
                                    req[r].balances.tokens[i].balance, 2)
            ELSE /\ req[r].error = ExternalFetchError
                 /\ req[r].agentCalls \in {2, 3}

\* walletC's response values its USDC balance 0.125 at 0.13 although both
\* lookups of its other tokens threw
C11_Witness ==
    \E r \in Reqs :
       /\ GotBalances(r) /\ req[r].pc = "done" /\ req[r].status = 200
       /\ req[r].key = "walletC"
       /\ req[r].lookups[1] = LookupThrew /\ req[r].lookups[3] = LookupThrew
       /\ req[r].balances.tokens[2].balance = 125000000
       /\ req[r].body.tokens[2].usdValue = 130000000

\* C12: a portfolio request that waits for its token lookups is never
\* answered with an error, whichever of them throw; it is answered only
\* when no lookup is pending, with one entry per held token in the order
\* of balances.tokens, the entry of a token whose lookup threw having the
\* USD value 0 and the entry of a priced token its balance times the price,
\* rounded to 2 decimals.
C12_FailedLookupIsZero ==
    [][\A r \in Reqs :
          /\ req[r].pc = "tokens" =>
                \/ req'[r].pc = "tokens"
                \/ req'[r].pc = "done" /\ req'[r].status = 200
          /\ (Answers(r, "portfolio") /\ req'[r].status = 200) =>
                LET held == req'[r].balances.tokens
                    out == req'[r].body.tokens
                    looked == req'[r].lookups
                IN  /\ \A i \in DOMAIN looked : looked[i] # LookupPending
                    /\ DOMAIN out = DOMAIN held
                    /\ \A i \in DOMAIN held :
                          /\ out[i].token = held[i].symbol
                          /\ IsRounded(out[i].balance, held[i].balance, 8)
                          /\ looked[i] = LookupThrew => out[i].usdValue = 0
                          /\ looked[i].t = "number" =>
                                IsRounded(out[i].usdValue,
                                          held[i].balance * looked[i].v, 2)]_vars

\* walletC's response lists its three tokens in order: the first, whose
\* lookup threw, at 0; the third, priced after that, at 0.75
C12_Witness ==
    \E r \in Reqs :
       /\ GotBalances(r) /\ req[r].pc = "done" /\ req[r].status = 200
       /\ req[r].lookups[1] = LookupThrew /\ req[r].lookups[3] = Num(3)
       /\ Len(req[r].body.tokens) = 3
       /\ req[r].body.tokens[1] =
             [token |-> "BONK", symbol |-> "Bonk", balance |-> 123456790,
              usdValue |-> 0]
       /\ req[r].body.tokens[3].token = "JUP"
       /\ req[r].body.tokens[3].usdValue = 750000000

(***************************************************************************)
(* Requests beside one another, checked under SpecServer.                  *)
(***************************************************************************)
\* request r is suspended at an external call
Suspended(r) == req[r].pc \in {"model"} \cup PortfolioAwaits

\* request r can take its next step now, leaving every other request as it
\* is: an idle slot can take a chat, a portfolio or a sign-transaction
\* request of either wallet, a suspended request can go on as soon as its
\* own call settles
CanGoOn(r) ==
    LET alone(A) == ENABLED (A /\ \A x \in Reqs \ {r} : req'[x] = req[x]) IN
    CASE req[r].pc = "idle" ->
           \A k \in Keys \ {""} :
              /\ alone(Chat(r, k, "hello"))
              /\ alone(Portfolio(r, k))
              /\ alone(SignTransaction(r, k))
      [] req[r].pc = "model" -> alone(ChatModelDone(r)) /\ alone(ChatModelThrow(r))
      [] req[r].pc = "balances" -> alone(PortfolioBalances(r))
      [] req[r].pc = "feedId" -> alone(PortfolioFeedId(r))
      [] req[r].pc = "solPrice" -> \A p \in SolPrices : alone(PortfolioSolPrice(r, p))
      [] req[r].pc = "tokens" ->
           \A i \in DOMAIN req[r].lookups :
              req[r].lookups[i] = LookupPending =>
                 /\ alone(TokenPriceThrow(r, i))
                 /\ \A p \in TokenPrices : alone(TokenPriceResolve(r, i, p))
      [] req[r].pc = "done" -> TRUE

\* C18: while a request is suspended at its external call, and while a
\* refresh attempt is suspended at its fetch, every other request can take
\* each of its steps up to its answer, and every getPrice call returns,
\* none of them changing the suspended request.
C18_HungCallStallsOnlyItself ==
    /\ \A r1 \in Reqs :
          Suspended(r1) => \A r2 \in Reqs \ {r1} : CanGoOn(r2)
    /\ (\E a \in DOMAIN attempts : attempts[a].pc = "fetch") =>
          /\ \A r \in Reqs : CanGoOn(r)
          /\ \A s \in Symbols : ENABLED (GetPrice(s) /\ req' = req /\ attempts' = attempts)

\* while the first refresh and a chat of walletA are suspended, a portfolio
\* request of walletA was answered
C18_Witness ==
    /\ attempts[1].pc = "fetch"
    /\ \E r1, r2 \in Reqs :
          /\ req[r1].pc = "model" /\ req[r1].key = "walletA"
          /\ GotBalances(r2) /\ req[r2].pc = "done" /\ req[r2].status = 200
          /\ req[r2].key = "walletA"

(***************************************************************************)
(* The watchlist of the portfolio response, checked under SpecPortfolio.   *)
(***************************************************************************)
\* C20: the watchlist of a portfolio response is read from the cache as it
\* is in the step that answers: its three entries are all absent, shown as
\* price 0 and change 0, or all built from the response of one refresh
\* attempt, shown with that entry's price and change (0 for one it lacks).
C20_WatchlistOneSnapshot ==
    [][\A r \in Clients :
          (Answers(r, "portfolio") /\ req'[r].status = 200) =>
             LET w == req'[r].watchlistPrices
                 out == req'[r].body.watchlist
             IN  /\ cache' = cache
                 /\ \A s \in Symbols : w[s] = CacheGet(cache, s)
                 /\ \/ \A s \in Symbols :
                          w[s] = Undefined /\ out[s] = [price |-> Num(0), change |-> Num(0)]
                    \/ \E a \in DOMAIN attempts :
                          /\ Updated(a)
                          /\ \A s \in Symbols :
                                /\ w[s] # Undefined /\ w[s].fetchedBy = a
                                /\ out[s].price = OrZero(w[s].usd)
                                /\ out[s].change = OrZero(w[s].usd_24h_change)]_vars

\* a response whose lookups settled after the first refresh had filled the
\* cache: its watchlist shows that refresh's three prices
C20_Witness ==
    \E r \in Clients :
       /\ GotBalances(r) /\ req[r].pc = "done" /\ req[r].status = 200
       /\ req[r].lookups[1] = Num(3)
       /\ \A s \in Symbols :
             /\ req[r].watchlistPrices[s] # Undefined
             /\ req[r].watchlistPrices[s].fetchedBy = 1
       /\ req[r].body.watchlist["BTC"] = [price |-> Num(2), change |-> Num(1)]
       /\ req[r].body.watchlist["SOL"] = [price |-> Num(-1), change |-> Num(0)]

(***************************************************************************)
(* Properties of the handlers beside the cache, checked under SpecProcess. *)
(***************************************************************************)
\* C14: the Session Store changes only in a step in which an init is
\* answered with success, and then only at that init's key; the cache
\* changes only in a step in which a refresh attempt ends with the cache
\* replaced. So a step of a request (init, chat, getPortfolio,
\* sign-transaction) or a getPrice call leaves the cache as it was, and a
\* step of chat, getPortfolio, sign-transaction, getPrice or a refresh
\* leaves the store as it was.
C14_OnlyInitAndRefreshWrite ==
    [][/\ userSessions' # userSessions =>
            \E r \in Clients :
               /\ Answers(r, "init") /\ req'[r].status = 200
               /\ DOMAIN userSessions' = DOMAIN userSessions \cup {req'[r].key}
               /\ \A k \in DOMAIN userSessions \ {req'[r].key} :
                     userSessions'[k] = userSessions[k]
       /\ cache' # cache =>
            \E a \in DOMAIN attempts : Completes(a) /\ attempts'[a].outcome = "updated"
       /\ (req' # req \/ lastRead' # lastRead) => cache' = cache
       /\ (attempts' # attempts \/ lastRead' # lastRead) => userSessions' = userSessions
       /\ \A r \in Clients :
            (req'[r] # req[r] /\ ~Answers(r, "init")) => userSessions' = userSessions]_vars

\* with the sessions of two wallets in the store, the cache filled and read,
\* a portfolio request of the first wallet was answered with cached prices
C14_Witness ==
    /\ DOMAIN userSessions = {"walletA", "walletB"}
    /\ userSessions["walletA"].agent.id < userSessions["walletB"].agent.id
    /\ DOMAIN cache = Symbols
    /\ lastRead.value # Undefined
    /\ \E r \in Clients :
          /\ GotBalances(r) /\ req[r].pc = "done" /\ req[r].status = 200
          /\ req[r].key = "walletA"
          /\ req[r].body.watchlist["BTC"].price = Num(1)

=============================================================================
